---- MODULE Spec2Model ----
(***************************************************************************)
(* Stack, Queue and Deque of c-core-utils (src/src/stack.h, queue.h,       *)
(* deque.h): an inline buffer of init_size slots, promoted to a heap       *)
(* buffer that grows by growth_factor.                                     *)
(*                                                                         *)
(* One container instance is modelled.  `kind` says which of the three     *)
(* GENERATE_* macros produced it and `init_size` is the macro argument of  *)
(* that instantiation; both are fixed for a behaviour.  `obj` is the       *)
(* struct.  The allocator triple (alloc_fn, realloc_fn, free_fn) is the    *)
(* environment: each call may succeed or fail.  Freshly allocated slots    *)
(* hold an indeterminate value, written Indet; memcpy carries that value   *)
(* along unchanged; a peek that reads such a slot may return any value.    *)
(*                                                                         *)
(* len_type is an unsigned type of len_bits bits whose arithmetic wraps    *)
(* modulo 2^len_bits (a type of rank >= int, as the size_t / uint32_t of   *)
(* the fixtures and docs); the model scales the width down so that the     *)
(* overflow guard of resize is reached.                                    *)
(***************************************************************************)
EXTENDS Integers, Sequences, FiniteSets, TLC

VARIABLES
   kind,       \* which container the instance is
   init_size,  \* its init_size macro argument
   len_bits,   \* the width of its len_type macro argument
   obj,        \* the struct: inline_buffer, values, head (front), len, size
   live,       \* number of heap buffers obtained and not yet released
   op,         \* the last operation called
   ret,        \* what it returned (TRUE for a void function)
   calls,      \* the allocator calls it made, in order
   peeked,     \* the element it returned, if it was a peek (else Indet)
   nextv,      \* the next value the caller inserts
   grows,      \* successful growths since init / delete
   script,     \* "fill", "drain" or "off": progress of a fill-then-drain run
   fed,        \* the values inserted by the run
   taken       \* how many of them the run has removed

vars == <<kind, init_size, len_bits, obj, live, op, ret, calls, peeked, nextv, grows, script, fed, taken>>

----------------------------------------------------------------------------
(* Bounds and configuration *)

\* the len_type widths of the modelled instantiations, in bits: with 3 bits
\* the largest capacity is 4, which an insert can fill; with 4 bits it is 8,
\* so that a heap buffer can grow again
LenWidths == {3, 4}

\* number of values a behaviour may insert (values are 1, 2, ... in order of
\* insertion: the code never inspects an element, so distinct values are the
\* most discriminating inputs for the order properties)
MaxIns == 5

\* init_size arguments of the modelled instantiations
InitSizes == {2}

\* growth_factor argument (FLOAT_QUEUE_GROWTH_FACTOR and the like)
GrowthFactor == 2

Kinds == {"stack", "queue", "deque"}

\* value of a slot that was never written
Indet == 0

RECURSIVE Pow2(_)
Pow2(n) == IF n = 0 THEN 1 ELSE 2 * Pow2(n - 1)

\* number of values of len_type
Modulus == Pow2(len_bits)

\* (len_type)(-1)
LEN_MAX == Modulus - 1

\* arithmetic of len_type
Wrap(x) == x % Modulus

\* bitwise AND of two naturals
RECURSIVE BitAnd(_, _)
BitAnd(a, b) ==
   IF a = 0 \/ b = 0 THEN 0
   ELSE (a % 2) * (b % 2) + 2 * BitAnd(a \div 2, b \div 2)

----------------------------------------------------------------------------
(* The allocator triple and memcpy *)

\* alloc_fn(sizeof(type) * n), on success
alloc_fn(n) == [i \in 0..(n - 1) |-> Indet]

\* realloc_fn(buf, sizeof(type) * n), on success
realloc_fn(buf, n) == [i \in 0..(n - 1) |-> IF i \in DOMAIN buf THEN buf[i] ELSE Indet]

\* MEMORY_COPY(dest + doff, src + soff, sizeof(type) * n)
MEMORY_COPY(dest, doff, src, soff, n) ==
   [i \in DOMAIN dest |->
      IF doff <= i /\ i < doff + n THEN src[soff + (i - doff)] ELSE dest[i]]

\* the freed state of the heap buffer
NoHeap == [i \in {} |-> Indet]

\* the buffer `values` points to
Active(c) == IF c.values = "inline" THEN c.inline_buffer ELSE c.heap

\* the struct with `values[i] = v` done
Store(c, i, v) ==
   IF c.values = "inline"
   THEN [c EXCEPT !.inline_buffer = [@ EXCEPT ![i] = v]]
   ELSE [c EXCEPT !.heap = [@ EXCEPT ![i] = v]]

\* result of an operation: the struct, the returned value, the allocator calls
Result(c, r, k) == [c |-> c, ret |-> r, calls |-> k]

----------------------------------------------------------------------------
(* type##_*_init *)

container_init(n) ==
   [inline_buffer |-> [i \in 0..(n - 1) |-> Indet],
    heap          |-> NoHeap,
    values        |-> "inline",
    head          |-> 0,
    len           |-> 0,
    size          |-> n]

stack_empty(s) == s.len = 0
\* stack_full that reports full one element early
stack_full_one_early(s) == s.len >= s.size - 1

stack_full(s) == s.len = s.size
queue_empty(q) == q.len = 0
queue_full(q) == q.len = q.size
deque_empty(d) == d.len = 0
deque_full(d) == d.len = d.size

----------------------------------------------------------------------------
(* Stack: GENERATE_STACK *)

\* stack_resize without the copy out of the inline buffer
stack_resize_no_copy(s, ok) ==
   IF s.size > LEN_MAX \div GrowthFactor
   THEN Result(s, FALSE, <<>>)
   ELSE LET new_size == Wrap(s.size * GrowthFactor) IN
      IF s.values = "inline"
      THEN IF ~ok
           THEN Result(s, FALSE, <<"alloc_fail">>)
           ELSE Result([s EXCEPT !.size = new_size, !.values = "heap",
                                 !.heap = alloc_fn(new_size)],
                       TRUE, <<"alloc">>)
      ELSE IF ~ok
           THEN Result(s, FALSE, <<"realloc_fail">>)
           ELSE Result([s EXCEPT !.size = new_size, !.heap = realloc_fn(s.heap, new_size)],
                       TRUE, <<"realloc">>)

\* stack_resize that assigns `size` before it knows the allocation succeeded
stack_resize_size_first(s, ok) ==
   IF s.size > LEN_MAX \div GrowthFactor
   THEN Result(s, FALSE, <<>>)
   ELSE LET new_size == Wrap(s.size * GrowthFactor)
            t        == [s EXCEPT !.size = new_size]
        IN
      IF s.values = "inline"
      THEN IF ~ok
           THEN Result(t, FALSE, <<"alloc_fail">>)
           ELSE LET tmp == MEMORY_COPY(alloc_fn(new_size), 0, s.inline_buffer, 0, s.len)
                IN  Result([t EXCEPT !.values = "heap", !.heap = tmp], TRUE, <<"alloc">>)
      ELSE IF ~ok
           THEN Result(t, FALSE, <<"realloc_fail">>)
           ELSE Result([t EXCEPT !.heap = realloc_fn(s.heap, new_size)], TRUE, <<"realloc">>)

\* stack_resize whose first allocation has the old size, not new_size
stack_resize_allocs_old_size(s, ok) ==
   IF s.size > LEN_MAX \div GrowthFactor
   THEN Result(s, FALSE, <<>>)
   ELSE LET new_size == Wrap(s.size * GrowthFactor) IN
      IF s.values = "inline"
      THEN IF ~ok
           THEN Result(s, FALSE, <<"alloc_fail">>)
           ELSE LET tmp == MEMORY_COPY(alloc_fn(s.size), 0, s.inline_buffer, 0, s.len)
                IN  Result([s EXCEPT !.size = new_size, !.values = "heap", !.heap = tmp],
                           TRUE, <<"alloc">>)
      ELSE IF ~ok
           THEN Result(s, FALSE, <<"realloc_fail">>)
           ELSE Result([s EXCEPT !.size = new_size, !.heap = realloc_fn(s.heap, new_size)],
                       TRUE, <<"realloc">>)

stack_resize(s, ok) ==
   IF s.size > LEN_MAX \div GrowthFactor
   THEN Result(s, FALSE, <<>>)
   ELSE LET new_size == Wrap(s.size * GrowthFactor) IN
      IF s.values = "inline"
      THEN IF ~ok
           THEN Result(s, FALSE, <<"alloc_fail">>)
           ELSE LET tmp == MEMORY_COPY(alloc_fn(new_size), 0, s.inline_buffer, 0, s.len)
                IN  Result([s EXCEPT !.size = new_size, !.values = "heap", !.heap = tmp],
                           TRUE, <<"alloc">>)
      ELSE IF ~ok
           THEN Result(s, FALSE, <<"realloc_fail">>)
           ELSE Result([s EXCEPT !.size = new_size, !.heap = realloc_fn(s.heap, new_size)],
                       TRUE, <<"realloc">>)

stack_clear(s) == Result([s EXCEPT !.len = 0], TRUE, <<>>)

\* stack_delete that goes back to the inline buffer but keeps the grown size
stack_delete_keeps_size(s) ==
   LET t == stack_clear(s).c IN
   IF t.values # "inline"
   THEN Result([t EXCEPT !.heap = NoHeap, !.values = "inline"], TRUE, <<"free">>)
   ELSE Result(t, TRUE, <<>>)

stack_delete(s) ==
   LET t == stack_clear(s).c IN
   IF t.values # "inline"
   THEN Result([t EXCEPT !.heap = NoHeap, !.values = "inline", !.size = init_size],
               TRUE, <<"free">>)
   ELSE Result(t, TRUE, <<>>)

\* stack_push without the growth of a full stack
stack_push_never_grows(s, value, ok) ==
   Result([Store(s, s.len, value) EXCEPT !.len = Wrap(s.len + 1)], TRUE, <<>>)

stack_push(s, value, ok) ==
   LET r == IF stack_full(s) THEN stack_resize(s, ok) ELSE Result(s, TRUE, <<>>) IN
   IF stack_full(s) /\ ~r.ret
   THEN Result(r.c, FALSE, r.calls)
   ELSE Result([Store(r.c, r.c.len, value) EXCEPT !.len = Wrap(r.c.len + 1)],
               TRUE, r.calls)

\* stack_pop without the check for an empty stack
stack_pop_unchecked(s) == Result([s EXCEPT !.len = Wrap(s.len - 1)], TRUE, <<>>)

stack_pop(s) ==
   IF stack_empty(s)
   THEN Result(s, FALSE, <<>>)
   ELSE Result([s EXCEPT !.len = Wrap(s.len - 1)], TRUE, <<>>)

\* the slot stack_peek returns (its assert(!empty) is the action's guard)
\* stack_peek that returns the bottom slot instead of the top
stack_peek_bottom(s) == Active(s)[0]

stack_peek(s) == Active(s)[Wrap(s.len - 1)]

\* SWAP(type, values[i], values[j])
SWAP(c, i, j) ==
   LET b == Active(c) IN Store(Store(c, i, b[j]), j, b[i])

\* the for loop of stack_reverse, from iteration i on
RECURSIVE stack_reverse_loop(_, _)
stack_reverse_loop(s, i) ==
   IF i < s.len \div 2
   THEN stack_reverse_loop(SWAP(s, i, Wrap(Wrap(s.len - 1) - i)), i + 1)
   ELSE s

\* stack_reverse that leaves a stack of fewer than three elements alone
stack_reverse_skips_pair(s) ==
   IF s.len < 3
   THEN Result(s, TRUE, <<>>)
   ELSE Result(stack_reverse_loop(s, 0), TRUE, <<>>)

stack_reverse(s) ==
   IF s.len < 2
   THEN Result(s, TRUE, <<>>)
   ELSE Result(stack_reverse_loop(s, 0), TRUE, <<>>)

----------------------------------------------------------------------------
(* Queue: GENERATE_QUEUE *)

\* queue_resize without the overflow guard
queue_resize_no_guard(q, ok) ==
   LET new_size    == Wrap(q.size * GrowthFactor)
       in_heap     == q.values # "inline"
       not_wrapped == Wrap(q.head + q.len) <= q.size
       done(tmp)   == [q EXCEPT !.size = new_size, !.values = "heap", !.heap = tmp,
                                 !.head = IF ~not_wrapped THEN 0 ELSE @]
   IN
   IF not_wrapped /\ in_heap
   THEN IF ~ok
        THEN Result(q, FALSE, <<"realloc_fail">>)
        ELSE Result(done(realloc_fn(q.heap, new_size)), TRUE, <<"realloc">>)
   ELSE IF ~ok
        THEN Result(q, FALSE, <<"alloc_fail">>)
        ELSE LET first_chunk == Wrap(q.size - q.head)
                 tmp == IF not_wrapped
                        THEN MEMORY_COPY(alloc_fn(new_size), 0, Active(q), 0, q.len)
                        ELSE MEMORY_COPY(
                                MEMORY_COPY(alloc_fn(new_size), 0, Active(q), q.head, first_chunk),
                                first_chunk, Active(q), 0, q.head)
             IN  Result(done(tmp), TRUE,
                        IF in_heap THEN <<"alloc", "free">> ELSE <<"alloc">>)

\* queue_resize without the free of the old heap buffer after a relocation
queue_resize_leaks(q, ok) ==
   IF q.size > LEN_MAX \div GrowthFactor
   THEN Result(q, FALSE, <<>>)
   ELSE LET new_size    == Wrap(q.size * GrowthFactor)
            in_heap     == q.values # "inline"
            not_wrapped == Wrap(q.head + q.len) <= q.size
            done(tmp)   == [q EXCEPT !.size = new_size, !.values = "heap", !.heap = tmp,
                                      !.head = IF ~not_wrapped THEN 0 ELSE @]
        IN
      IF not_wrapped /\ in_heap
      THEN IF ~ok
           THEN Result(q, FALSE, <<"realloc_fail">>)
           ELSE Result(done(realloc_fn(q.heap, new_size)), TRUE, <<"realloc">>)
      ELSE IF ~ok
           THEN Result(q, FALSE, <<"alloc_fail">>)
           ELSE LET first_chunk == Wrap(q.size - q.head)
                    tmp == IF not_wrapped
                           THEN MEMORY_COPY(alloc_fn(new_size), 0, Active(q), 0, q.len)
                           ELSE MEMORY_COPY(
                                   MEMORY_COPY(alloc_fn(new_size), 0, Active(q), q.head, first_chunk),
                                   first_chunk, Active(q), 0, q.head)
                IN  Result(done(tmp), TRUE, <<"alloc">>)

\* queue_resize whose wrapped relocation copies the two runs in buffer order
\* (slots 0 .. head-1 first, then head .. size-1)
queue_resize_chunks_swapped(q, ok) ==
   IF q.size > LEN_MAX \div GrowthFactor
   THEN Result(q, FALSE, <<>>)
   ELSE LET new_size    == Wrap(q.size * GrowthFactor)
            in_heap     == q.values # "inline"
            not_wrapped == Wrap(q.head + q.len) <= q.size
            done(tmp)   == [q EXCEPT !.size = new_size, !.values = "heap", !.heap = tmp,
                                      !.head = IF ~not_wrapped THEN 0 ELSE @]
        IN
      IF not_wrapped /\ in_heap
      THEN IF ~ok
           THEN Result(q, FALSE, <<"realloc_fail">>)
           ELSE Result(done(realloc_fn(q.heap, new_size)), TRUE, <<"realloc">>)
      ELSE IF ~ok
           THEN Result(q, FALSE, <<"alloc_fail">>)
           ELSE LET first_chunk == Wrap(q.size - q.head)
                    tmp == IF not_wrapped
                           THEN MEMORY_COPY(alloc_fn(new_size), 0, Active(q), 0, q.len)
                           ELSE MEMORY_COPY(
                                   MEMORY_COPY(alloc_fn(new_size), 0, Active(q), 0, q.head),
                                   q.head, Active(q), q.head, first_chunk)
                IN  Result(done(tmp), TRUE,
                           IF in_heap THEN <<"alloc", "free">> ELSE <<"alloc">>)

\* queue_resize that grows by half the size instead of by growth_factor
queue_resize_grows_by_half(q, ok) ==
   IF q.size > LEN_MAX \div GrowthFactor
   THEN Result(q, FALSE, <<>>)
   ELSE LET new_size    == Wrap(q.size + q.size \div 2)
            in_heap     == q.values # "inline"
            not_wrapped == Wrap(q.head + q.len) <= q.size
            done(tmp)   == [q EXCEPT !.size = new_size, !.values = "heap", !.heap = tmp,
                                      !.head = IF ~not_wrapped THEN 0 ELSE @]
        IN
      IF not_wrapped /\ in_heap
      THEN IF ~ok
           THEN Result(q, FALSE, <<"realloc_fail">>)
           ELSE Result(done(realloc_fn(q.heap, new_size)), TRUE, <<"realloc">>)
      ELSE IF ~ok
           THEN Result(q, FALSE, <<"alloc_fail">>)
           ELSE LET first_chunk == Wrap(q.size - q.head)
                    tmp == IF not_wrapped
                           THEN MEMORY_COPY(alloc_fn(new_size), 0, Active(q), 0, q.len)
                           ELSE MEMORY_COPY(
                                   MEMORY_COPY(alloc_fn(new_size), 0, Active(q), q.head, first_chunk),
                                   first_chunk, Active(q), 0, q.head)
                IN  Result(done(tmp), TRUE,
                           IF in_heap THEN <<"alloc", "free">> ELSE <<"alloc">>)

queue_resize(q, ok) ==
   IF q.size > LEN_MAX \div GrowthFactor
   THEN Result(q, FALSE, <<>>)
   ELSE LET new_size    == Wrap(q.size * GrowthFactor)
            in_heap     == q.values # "inline"
            not_wrapped == Wrap(q.head + q.len) <= q.size
            done(tmp)   == [q EXCEPT !.size = new_size, !.values = "heap", !.heap = tmp,
                                      !.head = IF ~not_wrapped THEN 0 ELSE @]
        IN
      IF not_wrapped /\ in_heap
      THEN IF ~ok
           THEN Result(q, FALSE, <<"realloc_fail">>)
           ELSE Result(done(realloc_fn(q.heap, new_size)), TRUE, <<"realloc">>)
      ELSE IF ~ok
           THEN Result(q, FALSE, <<"alloc_fail">>)
           ELSE LET first_chunk == Wrap(q.size - q.head)
                    tmp == IF not_wrapped
                           THEN MEMORY_COPY(alloc_fn(new_size), 0, Active(q), 0, q.len)
                           ELSE MEMORY_COPY(
                                   MEMORY_COPY(alloc_fn(new_size), 0, Active(q), q.head, first_chunk),
                                   first_chunk, Active(q), 0, q.head)
                IN  Result(done(tmp), TRUE,
                           IF in_heap THEN <<"alloc", "free">> ELSE <<"alloc">>)

\* queue_clear that also releases a heap buffer, as delete does
queue_clear_frees(q) ==
   LET t == [q EXCEPT !.len = 0, !.head = 0] IN
   IF t.values # "inline"
   THEN Result([t EXCEPT !.heap = NoHeap, !.values = "inline", !.size = init_size],
               TRUE, <<"free">>)
   ELSE Result(t, TRUE, <<>>)

queue_clear(q) == Result([q EXCEPT !.len = 0, !.head = 0], TRUE, <<>>)

queue_delete(q) ==
   LET t == queue_clear(q).c IN
   IF t.values # "inline"
   THEN Result([t EXCEPT !.heap = NoHeap, !.values = "inline", !.size = init_size],
               TRUE, <<"free">>)
   ELSE Result(t, TRUE, <<>>)

\* queue_enque that stores the value before it looks at the result of resize
queue_enque_stores_first(q, value, ok) ==
   LET r == IF queue_full(q) THEN queue_resize(q, ok) ELSE Result(q, TRUE, <<>>)
       c == Store(r.c, BitAnd(Wrap(r.c.head + r.c.len), Wrap(r.c.size - 1)), value)
   IN
   IF queue_full(q) /\ ~r.ret
   THEN Result(c, FALSE, r.calls)
   ELSE Result([c EXCEPT !.len = Wrap(c.len + 1)], TRUE, r.calls)

\* queue_enque that stores the value one slot before the tail
queue_enque_off_by_one(q, value, ok) ==
   LET r == IF queue_full(q) THEN queue_resize(q, ok) ELSE Result(q, TRUE, <<>>) IN
   IF queue_full(q) /\ ~r.ret
   THEN Result(r.c, FALSE, r.calls)
   ELSE LET c == r.c IN
        Result([Store(c, BitAnd(Wrap(c.head + c.len - 1), Wrap(c.size - 1)), value)
                   EXCEPT !.len = Wrap(c.len + 1)],
               TRUE, r.calls)

\* queue_enque that grows one element early, when len + 1 == size
queue_enque_grows_early(q, value, ok) ==
   LET early == Wrap(q.len + 1) >= q.size
       r == IF early THEN queue_resize(q, ok) ELSE Result(q, TRUE, <<>>)
   IN
   IF early /\ ~r.ret
   THEN Result(r.c, FALSE, r.calls)
   ELSE LET c == r.c IN
        Result([Store(c, BitAnd(Wrap(c.head + c.len), Wrap(c.size - 1)), value)
                   EXCEPT !.len = Wrap(c.len + 1)],
               TRUE, r.calls)

queue_enque(q, value, ok) ==
   LET r == IF queue_full(q) THEN queue_resize(q, ok) ELSE Result(q, TRUE, <<>>) IN
   IF queue_full(q) /\ ~r.ret
   THEN Result(r.c, FALSE, r.calls)
   ELSE LET c == r.c IN
        Result([Store(c, BitAnd(Wrap(c.head + c.len), Wrap(c.size - 1)), value)
                   EXCEPT !.len = Wrap(c.len + 1)],
               TRUE, r.calls)

\* queue_deque that advances head without the mask
queue_deque_no_mask(q) ==
   IF queue_empty(q)
   THEN Result(q, FALSE, <<>>)
   ELSE Result([q EXCEPT !.head = Wrap(q.head + 1), !.len = Wrap(q.len - 1)], TRUE, <<>>)

\* queue_deque without the empty check: len - 1 is evaluated with len == 0
queue_deque_unchecked(q) ==
   Result([q EXCEPT !.head = BitAnd(Wrap(q.head + 1), Wrap(q.size - 1)),
                    !.len = Wrap(q.len - 1)],
          TRUE, <<>>)

queue_deque(q) ==
   IF queue_empty(q)
   THEN Result(q, FALSE, <<>>)
   ELSE Result([q EXCEPT !.head = BitAnd(Wrap(q.head + 1), Wrap(q.size - 1)),
                         !.len = Wrap(q.len - 1)],
               TRUE, <<>>)

\* queue_peek that returns the first slot of the buffer instead of the head
queue_peek_slot0(q) == Active(q)[0]

\* the slot queue_peek returns (its assert(!empty) is the action's guard)
queue_peek(q) == Active(q)[q.head]

\* the for loop of queue_reverse, from iteration i on
RECURSIVE queue_reverse_loop(_, _, _, _, _)
queue_reverse_loop(q, head, tail, mask, i) ==
   IF i < q.len \div 2
   THEN queue_reverse_loop(
           SWAP(q, BitAnd(Wrap(head + i), mask), BitAnd(Wrap(tail - i), mask)),
           head, tail, mask, i + 1)
   ELSE q

\* queue_reverse that swaps as if the elements started at slot 0
queue_reverse_from_zero(q) ==
   IF q.len < 2
   THEN Result(q, TRUE, <<>>)
   ELSE Result(queue_reverse_loop(q, 0, Wrap(q.len - 1), Wrap(q.size - 1), 0),
               TRUE, <<>>)

queue_reverse(q) ==
   IF q.len < 2
   THEN Result(q, TRUE, <<>>)
   ELSE Result(queue_reverse_loop(q, q.head, Wrap(q.head + q.len - 1), Wrap(q.size - 1), 0),
               TRUE, <<>>)

----------------------------------------------------------------------------
(* Deque: DEFINE_DEQUE / GENERATE_DEQUE (field front is obj.head) *)

\* deque_resize that adds growth_factor to the size instead of multiplying
deque_resize_adds(d, ok) ==
   IF d.size > LEN_MAX \div GrowthFactor
   THEN Result(d, FALSE, <<>>)
   ELSE LET new_size    == Wrap(d.size + GrowthFactor)
            in_heap     == d.values # "inline"
            not_wrapped == Wrap(d.head + d.len) <= d.size
            done(tmp)   == [d EXCEPT !.size = new_size, !.values = "heap", !.heap = tmp,
                                      !.head = IF ~not_wrapped THEN 0 ELSE @]
        IN
      IF not_wrapped /\ in_heap
      THEN IF ~ok
           THEN Result(d, FALSE, <<"realloc_fail">>)
           ELSE Result(done(realloc_fn(d.heap, new_size)), TRUE, <<"realloc">>)
      ELSE IF ~ok
           THEN Result(d, FALSE, <<"alloc_fail">>)
           ELSE LET first_chunk == Wrap(d.size - d.head)
                    tmp == IF not_wrapped
                           THEN MEMORY_COPY(alloc_fn(new_size), 0, Active(d), 0, d.len)
                           ELSE MEMORY_COPY(
                                   MEMORY_COPY(alloc_fn(new_size), 0, Active(d), d.head, first_chunk),
                                   first_chunk, Active(d), 0, d.head)
                IN  Result(done(tmp), TRUE,
                           IF in_heap THEN <<"alloc", "free">> ELSE <<"alloc">>)

\* deque_resize without the `front = 0` of a relocation that unwrapped
deque_resize_keeps_front(d, ok) ==
   IF d.size > LEN_MAX \div GrowthFactor
   THEN Result(d, FALSE, <<>>)
   ELSE LET new_size    == Wrap(d.size * GrowthFactor)
            in_heap     == d.values # "inline"
            not_wrapped == Wrap(d.head + d.len) <= d.size
            done(tmp)   == [d EXCEPT !.size = new_size, !.values = "heap", !.heap = tmp]
        IN
      IF not_wrapped /\ in_heap
      THEN IF ~ok
           THEN Result(d, FALSE, <<"realloc_fail">>)
           ELSE Result(done(realloc_fn(d.heap, new_size)), TRUE, <<"realloc">>)
      ELSE IF ~ok
           THEN Result(d, FALSE, <<"alloc_fail">>)
           ELSE LET first_chunk == Wrap(d.size - d.head)
                    tmp == IF not_wrapped
                           THEN MEMORY_COPY(alloc_fn(new_size), 0, Active(d), 0, d.len)
                           ELSE MEMORY_COPY(
                                   MEMORY_COPY(alloc_fn(new_size), 0, Active(d), d.head, first_chunk),
                                   first_chunk, Active(d), 0, d.head)
                IN  Result(done(tmp), TRUE,
                           IF in_heap THEN <<"alloc", "free">> ELSE <<"alloc">>)

\* deque_resize that frees the old heap buffer before it allocates the new one
deque_resize_frees_first(d, ok) ==
   IF d.size > LEN_MAX \div GrowthFactor
   THEN Result(d, FALSE, <<>>)
   ELSE LET new_size    == Wrap(d.size * GrowthFactor)
            in_heap     == d.values # "inline"
            not_wrapped == Wrap(d.head + d.len) <= d.size
            done(tmp)   == [d EXCEPT !.size = new_size, !.values = "heap", !.heap = tmp,
                                      !.head = IF ~not_wrapped THEN 0 ELSE @]
        IN
      IF not_wrapped /\ in_heap
      THEN IF ~ok
           THEN Result(d, FALSE, <<"realloc_fail">>)
           ELSE Result(done(realloc_fn(d.heap, new_size)), TRUE, <<"realloc">>)
      ELSE IF ~ok
           THEN Result(d, FALSE, <<"alloc_fail">>)
           ELSE LET first_chunk == Wrap(d.size - d.head)
                    tmp == IF not_wrapped
                           THEN MEMORY_COPY(alloc_fn(new_size), 0, Active(d), 0, d.len)
                           ELSE MEMORY_COPY(
                                   MEMORY_COPY(alloc_fn(new_size), 0, Active(d), d.head, first_chunk),
                                   first_chunk, Active(d), 0, d.head)
                IN  Result(done(tmp), TRUE,
                           IF in_heap THEN <<"free", "alloc">> ELSE <<"alloc">>)

deque_resize(d, ok) ==
   IF d.size > LEN_MAX \div GrowthFactor
   THEN Result(d, FALSE, <<>>)
   ELSE LET new_size    == Wrap(d.size * GrowthFactor)
            in_heap     == d.values # "inline"
            not_wrapped == Wrap(d.head + d.len) <= d.size
            done(tmp)   == [d EXCEPT !.size = new_size, !.values = "heap", !.heap = tmp,
                                      !.head = IF ~not_wrapped THEN 0 ELSE @]
        IN
      IF not_wrapped /\ in_heap
      THEN IF ~ok
           THEN Result(d, FALSE, <<"realloc_fail">>)
           ELSE Result(done(realloc_fn(d.heap, new_size)), TRUE, <<"realloc">>)
      ELSE IF ~ok
           THEN Result(d, FALSE, <<"alloc_fail">>)
           ELSE LET first_chunk == Wrap(d.size - d.head)
                    tmp == IF not_wrapped
                           THEN MEMORY_COPY(alloc_fn(new_size), 0, Active(d), 0, d.len)
                           ELSE MEMORY_COPY(
                                   MEMORY_COPY(alloc_fn(new_size), 0, Active(d), d.head, first_chunk),
                                   first_chunk, Active(d), 0, d.head)
                IN  Result(done(tmp), TRUE,
                           IF in_heap THEN <<"alloc", "free">> ELSE <<"alloc">>)

\* the deque_clear macro
deque_clear(d) == Result([d EXCEPT !.len = 0], TRUE, <<>>)

\* deque_delete without its `front = 0` (deque_clear leaves front alone)
deque_delete_keeps_front(d) ==
   LET t == deque_clear(d).c IN
   IF t.values # "inline"
   THEN Result([t EXCEPT !.heap = NoHeap, !.values = "inline", !.size = init_size],
               TRUE, <<"free">>)
   ELSE Result(t, TRUE, <<>>)

deque_delete(d) ==
   LET t == [deque_clear(d).c EXCEPT !.head = 0] IN
   IF t.values # "inline"
   THEN Result([t EXCEPT !.heap = NoHeap, !.values = "inline", !.size = init_size],
               TRUE, <<"free">>)
   ELSE Result(t, TRUE, <<>>)

\* deque_insert_front that moves front forward instead of backward
deque_insert_front_forward(d, value, ok) ==
   LET r == IF deque_full(d) THEN deque_resize(d, ok) ELSE Result(d, TRUE, <<>>) IN
   IF deque_full(d) /\ ~r.ret
   THEN Result(r.c, FALSE, r.calls)
   ELSE LET c     == r.c
            front == BitAnd(Wrap(c.head + 1), Wrap(c.size - 1))
        IN  Result(Store([c EXCEPT !.len = Wrap(c.len + 1), !.head = front], front, value),
                   TRUE, r.calls)

\* deque_insert_front that stops at slot 0 instead of wrapping to the last slot
deque_insert_front_clamps(d, value, ok) ==
   LET r == IF deque_full(d) THEN deque_resize(d, ok) ELSE Result(d, TRUE, <<>>) IN
   IF deque_full(d) /\ ~r.ret
   THEN Result(r.c, FALSE, r.calls)
   ELSE LET c     == r.c
            front == IF c.head = 0 THEN 0 ELSE Wrap(c.head - 1)
        IN  Result(Store([c EXCEPT !.len = Wrap(c.len + 1), !.head = front], front, value),
                   TRUE, r.calls)

deque_insert_front(d, value, ok) ==
   LET r == IF deque_full(d) THEN deque_resize(d, ok) ELSE Result(d, TRUE, <<>>) IN
   IF deque_full(d) /\ ~r.ret
   THEN Result(r.c, FALSE, r.calls)
   ELSE LET c     == r.c
            front == BitAnd(Wrap(c.head + c.size - 1), Wrap(c.size - 1))
        IN  Result(Store([c EXCEPT !.len = Wrap(c.len + 1), !.head = front], front, value),
                   TRUE, r.calls)

\* deque_insert_back that calls resize whether or not the deque is full
deque_insert_back_always_resizes(d, value, ok) ==
   LET r == deque_resize(d, ok) IN
   IF ~r.ret
   THEN Result(r.c, FALSE, r.calls)
   ELSE LET c == r.c IN
        Result([Store(c, BitAnd(Wrap(c.head + c.len), Wrap(c.size - 1)), value)
                   EXCEPT !.len = Wrap(c.len + 1)],
               TRUE, r.calls)

\* deque_insert_back that writes at slot len, as if front were always 0
deque_insert_back_ignores_front(d, value, ok) ==
   LET r == IF deque_full(d) THEN deque_resize(d, ok) ELSE Result(d, TRUE, <<>>) IN
   IF deque_full(d) /\ ~r.ret
   THEN Result(r.c, FALSE, r.calls)
   ELSE LET c == r.c IN
        Result([Store(c, BitAnd(c.len, Wrap(c.size - 1)), value)
                   EXCEPT !.len = Wrap(c.len + 1)],
               TRUE, r.calls)

deque_insert_back(d, value, ok) ==
   LET r == IF deque_full(d) THEN deque_resize(d, ok) ELSE Result(d, TRUE, <<>>) IN
   IF deque_full(d) /\ ~r.ret
   THEN Result(r.c, FALSE, r.calls)
   ELSE LET c == r.c IN
        Result([Store(c, BitAnd(Wrap(c.head + c.len), Wrap(c.size - 1)), value)
                   EXCEPT !.len = Wrap(c.len + 1)],
               TRUE, r.calls)

\* deque_remove_front that only decrements len, as remove_back does
deque_remove_front_keeps_front(d) ==
   IF deque_empty(d)
   THEN Result(d, FALSE, <<>>)
   ELSE Result([d EXCEPT !.len = Wrap(d.len - 1)], TRUE, <<>>)

deque_remove_front(d) ==
   IF deque_empty(d)
   THEN Result(d, FALSE, <<>>)
   ELSE Result([d EXCEPT !.head = BitAnd(Wrap(d.head + 1), Wrap(d.size - 1)),
                         !.len = Wrap(d.len - 1)],
               TRUE, <<>>)

\* deque_remove_back that gives the heap buffer back once the deque is empty
deque_remove_back_releases(d) ==
   IF deque_empty(d)
   THEN Result(d, FALSE, <<>>)
   ELSE LET t == [d EXCEPT !.len = Wrap(d.len - 1)] IN
        IF t.len = 0 /\ t.values # "inline"
        THEN Result([t EXCEPT !.heap = NoHeap, !.values = "inline",
                              !.size = init_size, !.head = 0],
                    TRUE, <<"free">>)
        ELSE Result(t, TRUE, <<>>)

\* deque_remove_back that also wipes the slot it vacates
deque_remove_back_wipes(d) ==
   IF deque_empty(d)
   THEN Result(d, FALSE, <<>>)
   ELSE LET t == [d EXCEPT !.len = Wrap(d.len - 1)] IN
        Result(Store(t, BitAnd(Wrap(t.head + t.len), Wrap(t.size - 1)), Indet),
               TRUE, <<>>)

deque_remove_back(d) ==
   IF deque_empty(d)
   THEN Result(d, FALSE, <<>>)
   ELSE Result([d EXCEPT !.len = Wrap(d.len - 1)], TRUE, <<>>)

\* the slots the deque peeks return (assert(!empty) is the action's guard)
deque_peek_front(d) == Active(d)[d.head]

\* deque_peek_back that reads the slot one past the back
deque_peek_back_one_past(d) == Active(d)[BitAnd(Wrap(d.head + d.len), Wrap(d.size - 1))]

deque_peek_back(d) == Active(d)[BitAnd(Wrap(d.head + d.len - 1), Wrap(d.size - 1))]

----------------------------------------------------------------------------
(* The state machine *)

Init ==
   /\ kind \in Kinds
   /\ init_size \in InitSizes
   /\ len_bits \in LenWidths
   /\ obj = container_init(init_size)
   /\ live = 0
   /\ op = "init"
   /\ ret = TRUE
   /\ calls = <<>>
   /\ peeked = Indet
   /\ nextv = 1
   /\ grows = 0
   /\ script = "fill"
   /\ fed = <<>>
   /\ taken = 0

Has(k, name) == \E i \in DOMAIN k : k[i] = name

Grew(k) == Has(k, "alloc") \/ Has(k, "realloc")

\* heap buffers obtained minus heap buffers released by the calls k
LiveDelta(k) ==
   (IF Has(k, "alloc") THEN 1 ELSE 0) - (IF Has(k, "free") THEN 1 ELSE 0)

\* the caller's view of one call: the struct, the result, the allocator
Call(name, r) ==
   /\ obj' = r.c
   /\ op' = name
   /\ ret' = r.ret
   /\ calls' = r.calls
   /\ live' = live + LiveDelta(r.calls)
   /\ grows' = IF Grew(r.calls) THEN grows + 1 ELSE grows
   /\ UNCHANGED <<kind, init_size, len_bits>>

\* bookkeeping of a fill-then-drain run (all inserts, then all removes)
RunOff == script' = "off" /\ fed' = <<>> /\ taken' = 0

RunInsert(r, v) ==
   IF r.ret /\ script = "fill"
   THEN script' = "fill" /\ fed' = Append(fed, v) /\ taken' = 0
   ELSE RunOff

RunRemove(r) ==
   IF r.ret /\ script \in {"fill", "drain"}
   THEN script' = "drain" /\ fed' = fed /\ taken' = taken + 1
   ELSE RunOff

\* bookkeeping of a deque run that inserts at one end only and then removes
\* at that end only (fill / drain are the script values of that end)
RunInsertEnd(r, v, fill) ==
   IF r.ret /\ (script = fill \/ (script = "fill" /\ fed = <<>>))
   THEN script' = fill /\ fed' = Append(fed, v) /\ taken' = 0
   ELSE RunOff

RunRemoveEnd(r, fill, drain) ==
   IF r.ret /\ script \in {fill, drain}
   THEN script' = drain /\ fed' = fed /\ taken' = taken + 1
   ELSE RunOff

Insert(name, r) ==
   /\ Call(name, r)
   /\ peeked' = Indet
   /\ nextv' = IF r.ret THEN nextv + 1 ELSE nextv

Other(name, r) ==
   /\ Call(name, r)
   /\ peeked' = Indet
   /\ UNCHANGED nextv

\* a peek returns the slot; an indeterminate slot reads as any value
Peek(name, slot) ==
   /\ op' = name
   /\ ret' = TRUE
   /\ calls' = <<>>
   /\ peeked' \in (IF slot = Indet THEN 0..MaxIns ELSE {slot})
   /\ UNCHANGED <<kind, init_size, len_bits, obj, live, nextv, grows, script, fed, taken>>

Delete(name, r) ==
   /\ obj' = r.c
   /\ op' = name
   /\ ret' = r.ret
   /\ calls' = r.calls
   /\ live' = live + LiveDelta(r.calls)
   /\ grows' = 0
   /\ peeked' = Indet
   /\ script' = "fill" /\ fed' = <<>> /\ taken' = 0
   /\ UNCHANGED <<kind, init_size, len_bits, nextv>>

(* Stack *)
StackResize ==
   /\ kind = "stack"
   /\ \E ok \in BOOLEAN : Other("resize", stack_resize(obj, ok))
   /\ RunOff

StackClear == kind = "stack" /\ Other("clear", stack_clear(obj)) /\ RunOff

StackDelete == kind = "stack" /\ Delete("delete", stack_delete(obj))

StackPush ==
   /\ kind = "stack"
   /\ nextv <= MaxIns
   /\ \E ok \in BOOLEAN :
         LET r == stack_push(obj, nextv, ok) IN Insert("push", r) /\ RunInsert(r, nextv)

StackPop ==
   /\ kind = "stack"
   /\ LET r == stack_pop(obj) IN Other("pop", r) /\ RunRemove(r)

StackPeek == kind = "stack" /\ ~stack_empty(obj) /\ Peek("peek", stack_peek(obj))

StackReverse == kind = "stack" /\ Other("reverse", stack_reverse(obj)) /\ RunOff

(* Queue *)
QueueResize ==
   /\ kind = "queue"
   /\ \E ok \in BOOLEAN : Other("resize", queue_resize(obj, ok))
   /\ RunOff

QueueClear == kind = "queue" /\ Other("clear", queue_clear(obj)) /\ RunOff

QueueDelete == kind = "queue" /\ Delete("delete", queue_delete(obj))

QueueEnque ==
   /\ kind = "queue"
   /\ nextv <= MaxIns
   /\ \E ok \in BOOLEAN :
         LET r == queue_enque(obj, nextv, ok) IN Insert("enque", r) /\ RunInsert(r, nextv)

QueueDeque ==
   /\ kind = "queue"
   /\ LET r == queue_deque(obj) IN Other("deque", r) /\ RunRemove(r)

QueuePeek == kind = "queue" /\ ~queue_empty(obj) /\ Peek("peek", queue_peek(obj))

QueueReverse == kind = "queue" /\ Other("reverse", queue_reverse(obj)) /\ RunOff

(* Deque *)
DequeResize ==
   /\ kind = "deque"
   /\ \E ok \in BOOLEAN : Other("resize", deque_resize(obj, ok))
   /\ RunOff

DequeClear == kind = "deque" /\ Other("clear", deque_clear(obj)) /\ RunOff

DequeDelete == kind = "deque" /\ Delete("delete", deque_delete(obj))

DequeInsertFront ==
   /\ kind = "deque"
   /\ nextv <= MaxIns
   /\ \E ok \in BOOLEAN :
         LET r == deque_insert_front(obj, nextv, ok)
         IN  Insert("insert_front", r) /\ RunInsertEnd(r, nextv, "fill_front")

DequeInsertBack ==
   /\ kind = "deque"
   /\ nextv <= MaxIns
   /\ \E ok \in BOOLEAN :
         LET r == deque_insert_back(obj, nextv, ok)
         IN  Insert("insert_back", r) /\ RunInsertEnd(r, nextv, "fill_back")

DequeRemoveFront ==
   /\ kind = "deque"
   /\ LET r == deque_remove_front(obj)
      IN  Other("remove_front", r) /\ RunRemoveEnd(r, "fill_front", "drain_front")

DequeRemoveBack ==
   /\ kind = "deque"
   /\ LET r == deque_remove_back(obj)
      IN  Other("remove_back", r) /\ RunRemoveEnd(r, "fill_back", "drain_back")

DequePeekFront ==
   kind = "deque" /\ ~deque_empty(obj) /\ Peek("peek_front", deque_peek_front(obj))

DequePeekBack ==
   kind = "deque" /\ ~deque_empty(obj) /\ Peek("peek_back", deque_peek_back(obj))

Next ==
   \/ StackResize \/ StackClear \/ StackDelete \/ StackPush \/ StackPop
   \/ StackPeek \/ StackReverse
   \/ QueueResize \/ QueueClear \/ QueueDelete \/ QueueEnque \/ QueueDeque
   \/ QueuePeek \/ QueueReverse
   \/ DequeResize \/ DequeClear \/ DequeDelete \/ DequeInsertFront \/ DequeInsertBack
   \/ DequeRemoveFront \/ DequeRemoveBack \/ DequePeekFront \/ DequePeekBack

Spec == Init /\ [][Next]_vars

----------------------------------------------------------------------------
(* The test fixtures' configuration: a stack or a queue of init_size 4 and
   growth factor 2, an allocator that always succeeds, and only the
   insert / remove / peek calls *)

FLOAT_QUEUE_INIT_SIZE == 4

FixtureInit ==
   /\ kind \in {"stack", "queue"}
   /\ init_size = FLOAT_QUEUE_INIT_SIZE
   /\ len_bits \in {w \in LenWidths : Pow2(w) > FLOAT_QUEUE_INIT_SIZE * GrowthFactor}
   /\ obj = container_init(init_size)
   /\ live = 0
   /\ op = "init"
   /\ ret = TRUE
   /\ calls = <<>>
   /\ peeked = Indet
   /\ nextv = 1
   /\ grows = 0
   /\ script = "fill"
   /\ fed = <<>>
   /\ taken = 0

\* pushes of 1, 2, ... up to two values past the initial capacity
FixturePush ==
   /\ kind = "stack"
   /\ nextv <= init_size + GrowthFactor
   /\ LET r == stack_push(obj, nextv, TRUE) IN Insert("push", r) /\ RunInsert(r, nextv)

FixtureEnque ==
   /\ kind = "queue"
   /\ nextv <= init_size + GrowthFactor
   /\ LET r == queue_enque(obj, nextv, TRUE) IN Insert("enque", r) /\ RunInsert(r, nextv)

FixtureNext ==
   \/ FixturePush \/ StackPop \/ StackPeek
   \/ FixtureEnque \/ QueueDeque \/ QueuePeek

FixtureSpec == FixtureInit /\ [][FixtureNext]_vars

----------------------------------------------------------------------------
(* The assertion-enabled build: every insert starts with
   assert(validate_value_fn(value)), and a failed assertion aborts the
   process.  The validator is the int stack fixture's mock_valid; an abort is
   the call "abort" at the end of the calls made so far, after which nothing
   runs *)

validate_value_fn(value) == value % 6 # 0

\* values the validator rejects
Rejected == {x \in 0..(MaxIns + 1) : ~validate_value_fn(x)}

\* the failed assertion: the struct as it is at that point, the calls made
Abort(c, k) == Result(c, FALSE, Append(k, "abort"))

Aborted(k) == Has(k, "abort")

\* stack_push that validates the value only after the capacity check
stack_push_assert_late(s, value, ok) ==
   LET r == IF stack_full(s) THEN stack_resize(s, ok) ELSE Result(s, TRUE, <<>>) IN
   IF stack_full(s) /\ ~r.ret
   THEN Result(r.c, FALSE, r.calls)
   ELSE IF ~validate_value_fn(value)
        THEN Abort(r.c, r.calls)
        ELSE stack_push(s, value, ok)

stack_push_assert(s, value, ok) ==
   IF ~validate_value_fn(value) THEN Abort(s, <<>>) ELSE stack_push(s, value, ok)

queue_enque_assert(q, value, ok) ==
   IF ~validate_value_fn(value) THEN Abort(q, <<>>) ELSE queue_enque(q, value, ok)

deque_insert_front_assert(d, value, ok) ==
   IF ~validate_value_fn(value) THEN Abort(d, <<>>) ELSE deque_insert_front(d, value, ok)

deque_insert_back_assert(d, value, ok) ==
   IF ~validate_value_fn(value) THEN Abort(d, <<>>) ELSE deque_insert_back(d, value, ok)

\* the values a caller passes: the next fresh one or a rejected one
Passed == {nextv} \cup Rejected

\* the process has not aborted
Running == ~Aborted(calls)

AssertPush ==
   /\ Running
   /\ kind = "stack"
   /\ nextv <= MaxIns
   /\ \E ok \in BOOLEAN, value \in Passed :
         LET r == stack_push_assert(obj, value, ok)
         IN  Insert("push", r) /\ RunInsert(r, value)

AssertEnque ==
   /\ Running
   /\ kind = "queue"
   /\ nextv <= MaxIns
   /\ \E ok \in BOOLEAN, value \in Passed :
         LET r == queue_enque_assert(obj, value, ok)
         IN  Insert("enque", r) /\ RunInsert(r, value)

AssertInsertFront ==
   /\ Running
   /\ kind = "deque"
   /\ nextv <= MaxIns
   /\ \E ok \in BOOLEAN, value \in Passed :
         LET r == deque_insert_front_assert(obj, value, ok)
         IN  Insert("insert_front", r) /\ RunInsertEnd(r, value, "fill_front")

AssertInsertBack ==
   /\ Running
   /\ kind = "deque"
   /\ nextv <= MaxIns
   /\ \E ok \in BOOLEAN, value \in Passed :
         LET r == deque_insert_back_assert(obj, value, ok)
         IN  Insert("insert_back", r) /\ RunInsertEnd(r, value, "fill_back")

AssertNext ==
   \/ AssertPush \/ AssertEnque \/ AssertInsertFront \/ AssertInsertBack
   \/ Running /\ StackPop
   \/ Running /\ QueueDeque
   \/ Running /\ DequeRemoveFront
   \/ Running /\ DequeRemoveBack

AssertSpec == Init /\ [][AssertNext]_vars

----------------------------------------------------------------------------
(* Views of the state *)

\* len_type values
LenType == 0..LEN_MAX

IsPow2(n) == \E e \in 0..len_bits : n = Pow2(e)

\* the logical sequence of a queue / deque: values[(head + i) & (size - 1)]
Logical(c) ==
   [i \in 1..c.len |-> Active(c)[BitAnd(Wrap(c.head + (i - 1)), Wrap(c.size - 1))]]

\* the live elements of a stack: values[0 .. len-1]
StackSeq(c) == [i \in 1..c.len |-> Active(c)[i - 1]]

Elements(c) == IF kind = "stack" THEN StackSeq(c) ELSE Logical(c)

TypeOK ==
   /\ kind \in Kinds
   /\ init_size \in InitSizes
   /\ len_bits \in LenWidths
   /\ obj.values \in {"inline", "heap"}
   /\ obj.head \in LenType /\ obj.len \in LenType /\ obj.size \in LenType
   /\ DOMAIN obj.inline_buffer = 0..(init_size - 1)
   /\ live \in 0..1
   /\ ret \in BOOLEAN
   /\ nextv \in 1..(MaxIns + 1)

----------------------------------------------------------------------------
(* Properties *)

InsertOps == {"push", "enque", "insert_front", "insert_back"}

AllocFailed(k) == Has(k, "alloc_fail") \/ Has(k, "realloc_fail")

\* C1: an insert into a full queue / deque that succeeds (so its growth
\* succeeded) leaves the previous logical sequence as it was, in content and
\* order, and adds only the inserted element at the end it was inserted at.
C1_OrderPreservedByGrowth ==
   [][(/\ kind \in {"queue", "deque"}
       /\ obj.len = obj.size
       /\ op' \in InsertOps
       /\ ret')
      => Logical(obj') = IF op' = "insert_front"
                         THEN <<nextv>> \o Logical(obj)
                         ELSE Append(Logical(obj), nextv)]_vars

\* C1 happens: an insert grew a full, wrapped heap buffer (the relocation
\* that allocates, copies two runs and frees the old buffer)
C1_Witness ==
   /\ kind = "deque" /\ op = "insert_back" /\ ret
   /\ calls = <<"alloc", "free">>

\* C2: a resize whose allocator call failed returns false and leaves every
\* field and every slot of the container as it was; nothing is freed.
C2_FailedResizeChangesNothing ==
   [][(op' = "resize" /\ AllocFailed(calls'))
      => (/\ ret' = FALSE
          /\ obj' = obj
          /\ live' = live
          /\ ~Has(calls', "free"))]_vars

\* C2 happens: reallocate failed on a heap buffer that holds elements
C2_Witness ==
   /\ op = "resize" /\ calls = <<"realloc_fail">> /\ ~ret
   /\ obj.values = "heap" /\ obj.len > 0

\* C3: an insert into a full container whose growth fails (the allocator
\* fails, or the capacity cannot be multiplied) returns false and changes
\* nothing: the value is not stored.
C3_FailedInsertChangesNothing ==
   [][(op' \in InsertOps /\ obj.len = obj.size /\ ~Grew(calls'))
      => (ret' = FALSE /\ obj' = obj /\ live' = live)]_vars

\* C3 happens: an insert into a full container failed on the overflow guard
C3_Witness ==
   /\ op \in InsertOps /\ ~ret /\ calls = <<>>
   /\ obj.len = obj.size

\* C4: capacity is a power of two, at least init_size and at most the
\* maximum of len_type, and 0 <= length <= capacity.
C4_CapacityInvariant ==
   /\ IsPow2(obj.size)
   /\ obj.size >= init_size
   /\ obj.size <= LEN_MAX
   /\ 0 <= obj.len
   /\ obj.len <= obj.size

\* C4 happens: a grown container, filled to its capacity, after a failed call
C4_Witness ==
   /\ obj.size > init_size /\ obj.len = obj.size
   /\ op = "resize" /\ ~ret

\* C5: the front index of a queue / deque is a valid slot: 0 <= head < capacity.
C5_HeadInRange ==
   kind \in {"queue", "deque"} => (0 <= obj.head /\ obj.head < obj.size)

\* C5 happens: a dequeue moved head past the last slot, back to slot 0
C5_Witness ==
   /\ kind = "queue" /\ op = "deque" /\ ret
   /\ obj.head = 0 /\ obj.len > 0

\* the part of the fed values a fill-then-drain run has not removed yet
Remaining(from, to) == [i \in 1..(to - from + 1) |-> fed[from + i - 1]]

\* C6: FIFO law.  In a run that enqueues v1..vn into a fresh queue and then
\* dequeues, the queue holds the values not yet dequeued in the order they
\* were enqueued, every peek returns the oldest of them, and after n
\* dequeues the queue is empty.
C6_FifoLaw ==
   (kind = "queue" /\ script \in {"fill", "drain"})
   => /\ taken <= Len(fed)
      /\ Logical(obj) = Remaining(taken + 1, Len(fed))
      /\ (op = "peek" => peeked = fed[taken + 1])
      /\ (taken = Len(fed) => queue_empty(obj))

\* C6 happens: the last peek of a run whose n exceeds twice init_size
C6_Witness ==
   /\ kind = "queue" /\ script = "drain" /\ op = "peek"
   /\ Len(fed) > 2 * init_size /\ taken = Len(fed) - 1

\* C7: LIFO law.  In a run that pushes v1..vn onto a fresh stack and then
\* pops, the stack holds the values not yet popped in push order, every
\* peek returns the newest of them (vi after the i-th push), and after n
\* pops the stack is empty.
C7_LifoLaw ==
   (kind = "stack" /\ script \in {"fill", "drain"})
   => /\ taken <= Len(fed)
      /\ StackSeq(obj) = Remaining(1, Len(fed) - taken)
      /\ (op = "peek" => peeked = fed[Len(fed) - taken])
      /\ (taken = Len(fed) => stack_empty(obj))

\* C7 happens: the last peek of a run whose n exceeds twice init_size
C7_Witness ==
   /\ kind = "stack" /\ script = "drain" /\ op = "peek"
   /\ Len(fed) > 2 * init_size /\ taken = Len(fed) - 1

\* C8: Deque symmetry.  A successful insert_front(x) makes x the first
\* element and a successful insert_back(x) makes x the last one, the other
\* elements keeping their order; peek_front / peek_back then read x.
C8_DequeSymmetry ==
   [][(kind = "deque" /\ op' \in {"insert_front", "insert_back"} /\ ret')
      => IF op' = "insert_front"
         THEN /\ Logical(obj') = <<nextv>> \o Logical(obj)
              /\ deque_peek_front(obj') = nextv
         ELSE /\ Logical(obj') = Append(Logical(obj), nextv)
              /\ deque_peek_back(obj') = nextv]_vars

\* C8 happens: insert_front(1), insert_back(2), insert_front(3) on an empty
\* deque gave the order 3, 1, 2
C8_Witness ==
   /\ kind = "deque" /\ op = "insert_front" /\ ret /\ nextv = 4
   /\ Logical(obj) = <<3, 1, 2>>
   /\ deque_peek_front(obj) = 3 /\ deque_peek_back(obj) = 2

\* C9: Growth overflow safety.  A resize of a container whose capacity
\* exceeds MAX / growth_factor returns false without an allocator call and
\* changes nothing; every growth that does happen sets the capacity to the
\* product capacity * growth_factor, which is at most MAX (no wraparound).
C9_OverflowSafety ==
   [][/\ (op' = "resize" /\ obj.size > LEN_MAX \div GrowthFactor)
         => (ret' = FALSE /\ calls' = <<>> /\ obj' = obj /\ live' = live)
      /\ Grew(calls')
         => (obj'.size = obj.size * GrowthFactor /\ obj.size * GrowthFactor <= LEN_MAX)]_vars

\* C9 happens: a resize at the largest capacity, holding elements, refused
C9_Witness ==
   /\ op = "resize" /\ ~ret /\ calls = <<>>
   /\ obj.size > LEN_MAX \div GrowthFactor /\ obj.len > 0

RECURSIVE Pow(_, _)
Pow(b, e) == IF e = 0 THEN 1 ELSE b * Pow(b, e - 1)

\* C10: Growth geometric law.  After k successful growths since init or
\* delete the capacity is init_size * growth_factor^k, and a call whose
\* allocation succeeded returns true.
C10_GeometricLaw ==
   /\ obj.size = init_size * Pow(GrowthFactor, grows)
   /\ Grew(calls) => ret

\* C10 happens: the second growth, an explicit resize of a wrapped heap buffer
C10_Witness ==
   /\ grows = 2 /\ op = "resize" /\ ret
   /\ calls = <<"alloc", "free">>

\* the fields of a struct, without the contents of its inline slots
Fields(c) == [values |-> c.values, heap |-> c.heap, head |-> c.head,
              len |-> c.len, size |-> c.size]

\* C11: Round-trip teardown.  After delete, whatever state it was called in,
\* length is 0, capacity is init_size, the front index is 0, the active
\* buffer is the inline buffer and no heap buffer is left: the fields are
\* exactly those init produces.
C11_DeleteRestoresInit ==
   op = "delete"
   => /\ obj.len = 0
      /\ obj.size = init_size
      /\ obj.head = 0
      /\ obj.values = "inline"
      /\ Fields(obj) = Fields(container_init(init_size))
      /\ live = 0

\* C11 happens: delete released the heap buffer of a deque whose front had
\* moved (its inline slots still hold values written before the growth)
C11_Witness ==
   /\ kind = "deque" /\ op = "delete" /\ calls = <<"free">>
   /\ obj.inline_buffer[init_size - 1] # Indet

RemoveOps == {"pop", "deque", "remove_front", "remove_back"}

\* C12: a pop / dequeue / remove_front / remove_back of an empty container
\* returns false and changes no field; of a non-empty one it returns true
\* and decreases the length by exactly one (capacity and buffer stay).
C12_RemoveLaw ==
   [][op' \in RemoveOps
      => IF obj.len = 0
         THEN ret' = FALSE /\ obj' = obj
         ELSE /\ ret' = TRUE
              /\ obj'.len = obj.len - 1
              /\ obj'.size = obj.size /\ obj'.values = obj.values]_vars

\* C12 happens: a removal refused on an empty, grown deque whose front is
\* not 0
C12_Witness ==
   /\ op \in RemoveOps /\ ~ret
   /\ obj.len = 0 /\ obj.head # 0 /\ obj.values = "heap"

\* C13: Heap ownership.  At most one heap buffer is live, and it is live
\* exactly while it is the active buffer; free is called only on the live
\* active heap buffer (never on the inline buffer, never on a buffer already
\* released, never by a growth whose allocation failed); a buffer passed to
\* a successful reallocate was the live active one; after delete no heap
\* buffer is live.
C13_HeapOwnership ==
   [][/\ live' \in {0, 1}
      /\ (live' = 1) <=> (obj'.values = "heap")
      /\ (obj'.heap # NoHeap) <=> (obj'.values = "heap")
      /\ Has(calls', "free")
         => (obj.values = "heap" /\ live = 1 /\ ~AllocFailed(calls'))
      /\ (Has(calls', "realloc") \/ Has(calls', "realloc_fail"))
         => (obj.values = "heap" /\ live = 1)
      /\ AllocFailed(calls') => (live' = live /\ obj'.values = obj.values)
      /\ op' = "delete" => live' = 0]_vars

\* C13 happens: a growth moved a wrapped heap buffer into a new one and
\* freed the old one, leaving one live buffer
C13_Witness ==
   /\ calls = <<"alloc", "free">> /\ live = 1
   /\ obj.values = "heap" /\ grows >= 2

\* C14: an explicit resize may be called in any state, full or not: when it
\* succeeds the length is unchanged and the new buffer holds the same logical
\* sequence (the same elements in the same order, read from the front index
\* through the mask).  The code does not satisfy this for a queue / deque
\* that is still inline, not wrapped and has head # 0.
C14_ResizeKeepsSequence ==
   [][(op' = "resize" /\ ret')
      => (obj'.len = obj.len /\ Elements(obj') = Elements(obj))]_vars

\* C15: position of the data after a successful queue / deque resize.  A
\* growth in place (reallocate of a not-wrapped heap buffer) leaves every
\* slot and the front index as they were; a growth that relocates (from the
\* inline buffer, wrapped or not, or from a wrapped heap buffer) puts the
\* run of `len` elements that started at the front index at the front of
\* the new buffer, and the front index is 0 afterwards.  The code does not
\* satisfy this for an inline, not-wrapped source with head # 0.
C15_DataPositionAfterGrowth ==
   [][(kind \in {"queue", "deque"} /\ op' = "resize" /\ ret')
      => IF Has(calls', "realloc")
         THEN /\ obj'.head = obj.head
              /\ \A i \in 0..(obj.size - 1) : Active(obj')[i] = Active(obj)[i]
         ELSE /\ obj'.head = 0
              /\ \A i \in 1..obj.len : Active(obj')[i - 1] = Logical(obj)[i]]_vars

\* the slot an insert writes, given the struct before the call (c), after it
\* (d) and whether the call grew the buffer: values[len] for push, the masked
\* tail for enque / insert_back, the decremented and masked front for
\* insert_front (a growth of a full buffer leaves the front at 0)
InsertSlot(name, c, d, grew) ==
   CASE name = "push" -> c.len
     [] name \in {"enque", "insert_back"} ->
           BitAnd(Wrap(d.head + c.len), Wrap(d.size - 1))
     [] name = "insert_front" ->
           BitAnd(Wrap((IF grew THEN 0 ELSE c.head) + d.size - 1), Wrap(d.size - 1))

C18_NoHeapUntilExceeded ==
   [][/\ (/\ obj.values = "inline"
          /\ op' # "resize"
          /\ ~(op' \in InsertOps /\ obj.len = obj.size))
         => (/\ calls' = <<>>
             /\ live' = 0
             /\ obj'.values = "inline"
             /\ obj'.size = init_size
             /\ obj.size = init_size)
      /\ (op' \in InsertOps /\ calls' # <<>>) => obj.len = obj.size]_vars

\* C18 happens: more enqueues than twice init_size, interleaved with
\* dequeues, and the queue is still in its inline buffer with a wrapped tail
C18_Witness ==
   /\ kind = "queue" /\ op = "enque" /\ ret
   /\ nextv - 1 > 2 * init_size
   /\ obj.values = "inline" /\ live = 0 /\ grows = 0
   /\ obj.head + obj.len > obj.size

\* C19: the queue scenario with init_size 4, growth factor 2 and a succeeding
\* allocator.  Enqueue 1, 2, 3, 4 gives a full queue of capacity 4; one
\* dequeue gives head = 1, len = 3; enqueue 5 is written at slot 0 without
\* growth; enqueue 6 grows the wrapped buffer: the logical sequence is
\* 2, 3, 4, 5, 6, the capacity 8 and the head 0.
C19_QueueScenario ==
   [][kind = "queue"
      => /\ (script' = "fill" /\ fed' = <<1, 2, 3, 4>>)
            => (/\ queue_full(obj') /\ obj'.size = 4
                /\ obj'.values = "inline" /\ grows' = 0
                /\ Logical(obj') = <<1, 2, 3, 4>>)
         /\ (script = "fill" /\ fed = <<1, 2, 3, 4>> /\ op' = "deque")
            => (ret' /\ obj'.head = 1 /\ obj'.len = 3 /\ Logical(obj') = <<2, 3, 4>>)
         /\ (script = "drain" /\ fed = <<1, 2, 3, 4>> /\ taken = 1 /\ op' = "enque")
            => (/\ ret' /\ calls' = <<>>
                /\ Active(obj')[0] = 5
                /\ obj'.values = "inline" /\ obj'.size = 4
                /\ obj'.head = 1 /\ obj'.len = 4
                /\ Logical(obj') = <<2, 3, 4, 5>>)
         /\ (/\ obj.values = "inline" /\ obj.size = 4 /\ obj.head = 1
             /\ Logical(obj) = <<2, 3, 4, 5>> /\ op' = "enque")
            => (/\ ret' /\ Grew(calls')
                /\ Logical(obj') = <<2, 3, 4, 5, 6>>
                /\ obj'.size = 8 /\ obj'.head = 0)]_vars

\* C19 happens: the end of the scenario
C19_Witness ==
   /\ kind = "queue" /\ op = "enque" /\ ret /\ calls = <<"alloc">>
   /\ init_size = 4 /\ nextv = 7
   /\ Logical(obj) = <<2, 3, 4, 5, 6>> /\ obj.size = 8 /\ obj.head = 0

\* C20: the stack scenario with init_size 4 and a succeeding allocator.
\* Push 1, 2, 3, 4 fills the stack without an allocation; push 5 grows it to
\* capacity 8 and succeeds; peek returns 5; each of five pops returns true
\* and they leave len = 0, where the precondition of peek is violated and a
\* sixth pop returns false.
C20_StackScenario ==
   [][kind = "stack"
      => /\ (script' = "fill" /\ fed' = <<1, 2, 3, 4>>)
            => (/\ stack_full(obj') /\ obj'.size = 4
                /\ obj'.values = "inline" /\ grows' = 0 /\ live' = 0
                /\ StackSeq(obj') = <<1, 2, 3, 4>>)
         /\ (script = "fill" /\ fed = <<1, 2, 3, 4>> /\ op' = "push")
            => (/\ ret' /\ Grew(calls')
                /\ obj'.size = 8 /\ obj'.len = 5
                /\ stack_peek(obj') = 5)
         /\ (script = "fill" /\ fed = <<1, 2, 3, 4, 5>> /\ op' = "peek")
            => peeked' = 5
         /\ (/\ script \in {"fill", "drain"} /\ fed = <<1, 2, 3, 4, 5>>
             /\ taken < 5 /\ op' = "pop")
            => (ret' /\ obj'.len = 5 - (taken + 1))
         /\ (script' = "drain" /\ fed' = <<1, 2, 3, 4, 5>> /\ taken' = 5)
            => (obj'.len = 0 /\ stack_empty(obj'))
         /\ (script = "drain" /\ fed = <<1, 2, 3, 4, 5>> /\ taken = 5 /\ op' = "pop")
            => (ret' = FALSE /\ obj' = obj)]_vars

\* C20 happens: the sixth pop, refused on the emptied, grown stack
C20_Witness ==
   /\ kind = "stack" /\ op = "pop" /\ ~ret
   /\ init_size = 4 /\ nextv = 6
   /\ obj.len = 0 /\ obj.size = 8 /\ obj.values = "heap"
   /\ StackSeq([obj EXCEPT !.len = 5]) = <<1, 2, 3, 4, 5>>

PeekOps == {"peek", "peek_front", "peek_back"}

\* the slot the claim names for each peek, on the struct c
PeekSlot(name, c) ==
   CASE name = "peek" /\ kind = "stack" -> Active(c)[c.len - 1]
     [] name = "peek" /\ kind = "queue" -> Active(c)[c.head]
     [] name = "peek_front" -> Active(c)[c.head]
     [] name = "peek_back" -> Active(c)[BitAnd(c.head + c.len - 1, c.size - 1)]

\* some peek of the container can return
PeekReturns == ENABLED (StackPeek \/ QueuePeek \/ DequePeekFront \/ DequePeekBack)

\* C21: Peek contract.  On a non-empty container a peek passes its assert,
\* changes nothing and returns values[len - 1] (stack), values[head] (queue
\* peek, deque peek_front) or values[(front + len - 1) & (size - 1)] (deque
\* peek_back); on an empty container the assert fails, so no peek returns.
C21_PeekContract ==
   /\ [](obj.len > 0 <=> PeekReturns)
   /\ [][op' \in PeekOps
         => (/\ obj.len > 0
             /\ obj' = obj /\ calls' = <<>> /\ live' = live
             /\ PeekSlot(op', obj) # Indet => peeked' = PeekSlot(op', obj))]_vars

\* C21 happens: peek_back read the last element of a deque whose elements
\* wrap round the end of a grown buffer
C21_Witness ==
   /\ kind = "deque" /\ op = "peek_back" /\ obj.values = "heap"
   /\ obj.head + obj.len > obj.size /\ obj.len > 1
   /\ peeked = Logical(obj)[obj.len] /\ peeked # Indet

\* a sequence read backwards
Reversed(q) == [i \in 1..Len(q) |-> q[Len(q) + 1 - i]]

\* C22: Queue reverse.  In every queue state (inline or heap, wrapped or
\* not, any head) reverse leaves head, len, size and the active buffer where
\* they are, calls no allocator, and makes the logical sequence the exact
\* reverse of the previous one; with len < 2 it changes nothing.
C22_QueueReverse ==
   [][(kind = "queue" /\ op' = "reverse")
      => (/\ obj'.head = obj.head /\ obj'.len = obj.len
          /\ obj'.size = obj.size /\ obj'.values = obj.values
          /\ calls' = <<>>
          /\ Logical(obj') = Reversed(Logical(obj))
          /\ \A i \in 1..obj.len : Logical(obj')[i] = Logical(obj)[obj.len + 1 - i]
          /\ obj.len < 2 => obj' = obj)]_vars

\* C22 happens: a reverse of four elements that wrap round the end of the
\* heap buffer put the newest element at the head
C22_Witness ==
   /\ kind = "queue" /\ op = "reverse" /\ obj.values = "heap"
   /\ obj.len = 4 /\ obj.head + obj.len > obj.size
   /\ Logical(obj) = <<5, 4, 3, 2>>
   /\ queue_peek(obj) = 5

\* C23: Stack reverse.  In every stack state (inline or heap, odd or even
\* len) after reverse values[i] is the previous values[len - 1 - i] for all
\* i in [0, len); len, size and the active buffer are unchanged; with
\* len < 2 it changes nothing.
C23_StackReverse ==
   [][(kind = "stack" /\ op' = "reverse")
      => (/\ \A i \in 0..(obj.len - 1) :
                Active(obj')[i] = Active(obj)[obj.len - 1 - i]
          /\ obj'.len = obj.len /\ obj'.size = obj.size
          /\ obj'.values = obj.values
          /\ calls' = <<>>
          /\ obj.len < 2 => obj' = obj)]_vars

\* C23 happens: a reverse of an odd number of elements in a heap buffer
C23_Witness ==
   /\ kind = "stack" /\ op = "reverse" /\ obj.values = "heap"
   /\ StackSeq(obj) = <<5, 4, 3, 2, 1>>

\* C24: clear empties the container without deallocating.  It sets len = 0
\* (the queue's clear also head = 0); the active buffer, inline or heap, its
\* contents and the capacity are unchanged, no allocator function is called,
\* and empty() holds afterwards.
C24_ClearKeepsBuffer ==
   [][op' = "clear"
      => (/\ obj'.len = 0
          /\ kind = "queue" => obj'.head = 0
          /\ obj'.values = obj.values /\ obj'.size = obj.size
          /\ obj'.heap = obj.heap /\ obj'.inline_buffer = obj.inline_buffer
          /\ calls' = <<>> /\ live' = live
          /\ CASE kind = "stack" -> stack_empty(obj')
               [] kind = "queue" -> queue_empty(obj')
               [] kind = "deque" -> deque_empty(obj'))]_vars

\* C24 happens: a clear of a grown queue that held elements away from slot 0
C24_Witness ==
   /\ kind = "queue" /\ op = "clear"
   /\ obj.values = "heap" /\ obj.size > init_size /\ live = 1
   /\ obj.len = 0 /\ obj.head = 0
   /\ obj.heap[1] # Indet /\ obj.heap[0] = Indet

\* C25: each end of a deque behaves as a stack, across growth.  In a run
\* that inserts v1..vn at the front only and then removes at the front
\* only, the deque holds the values not yet removed, newest first, and
\* peek_front returns the newest of them (vi after the i-th insert, then
\* vn-1, ..., v1 after the removals); the same holds at the back with
\* insert_back / peek_back / remove_back.
C25_DequeEndsAreStacks ==
   /\ (kind = "deque" /\ script \in {"fill_front", "drain_front"})
      => /\ taken <= Len(fed)
         /\ Logical(obj) = Reversed(Remaining(1, Len(fed) - taken))
         /\ taken < Len(fed) => deque_peek_front(obj) = fed[Len(fed) - taken]
         /\ op = "peek_front" => peeked = fed[Len(fed) - taken]
   /\ (kind = "deque" /\ script \in {"fill_back", "drain_back"})
      => /\ taken <= Len(fed)
         /\ Logical(obj) = Remaining(1, Len(fed) - taken)
         /\ taken < Len(fed) => deque_peek_back(obj) = fed[Len(fed) - taken]
         /\ op = "peek_back" => peeked = fed[Len(fed) - taken]

\* C25 happens: the last peek_front of a front-only run whose n exceeds
\* twice init_size (two growths happened while it was filled)
C25_Witness ==
   /\ kind = "deque" /\ script = "drain_front" /\ op = "peek_front"
   /\ Len(fed) > 2 * init_size /\ taken = Len(fed) - 1
   /\ grows = 2 /\ peeked = fed[1]

\* the number of slots of the buffer `values` points to
Slots(c) == Cardinality(DOMAIN Active(c))

\* C26: after every operation the active buffer is either the inline buffer,
\* which has init_size slots, or a heap allocation of exactly `size`
\* elements; size never exceeds the number of slots allocated.
C26_BufferMatchesCapacity ==
   /\ obj.values = "inline"
      => (DOMAIN obj.inline_buffer = 0..(init_size - 1) /\ obj.size = init_size)
   /\ obj.values = "heap"
      => (DOMAIN obj.heap = 0..(obj.size - 1) /\ live = 1)
   /\ obj.size <= Slots(obj)

\* C26 happens: a heap buffer that was allocated, then reallocated, and is
\* filled to its capacity
C26_Witness ==
   /\ obj.values = "heap" /\ grows = 2 /\ calls = <<"realloc">>
   /\ Slots(obj) = init_size * GrowthFactor * GrowthFactor

\* C27: the allocator functions are called only from growth and delete.
\* pop, deque, remove_front, remove_back, every peek, reverse and clear call
\* none of allocate, reallocate and free and leave the active buffer and
\* the capacity alone; so does an insert into a container that is not full.
\* (empty and full are the pure predicates *_empty / *_full.)
C27_AllocatorOnlyInGrowthAndDelete ==
   [][/\ (\/ op' \in RemoveOps \cup PeekOps \cup {"reverse", "clear"}
          \/ (op' \in InsertOps /\ obj.len # obj.size))
         => (/\ calls' = <<>> /\ live' = live
             /\ obj'.values = obj.values /\ obj'.size = obj.size
             /\ DOMAIN obj'.heap = DOMAIN obj.heap)
      /\ calls' # <<>>
         => (\/ op' = "resize"
             \/ op' = "delete"
             \/ (op' \in InsertOps /\ obj.len = obj.size))]_vars

\* C27 happens: the removal that emptied a grown deque kept its heap buffer
C27_Witness ==
   /\ kind = "deque" /\ op = "remove_back" /\ ret /\ calls = <<>>
   /\ obj.len = 0 /\ obj.values = "heap" /\ live = 1 /\ grows = 2

\* empty() / full() of the container's kind
IsEmpty(c) ==
   CASE kind = "stack" -> stack_empty(c)
     [] kind = "queue" -> queue_empty(c)
     [] kind = "deque" -> deque_empty(c)

IsFull(c) ==
   CASE kind = "stack" -> stack_full(c)
     [] kind = "queue" -> queue_full(c)
     [] kind = "deque" -> deque_full(c)

\* an insert-only run from a fresh container
Filling == script \in {"fill", "fill_front", "fill_back"}

\* C28: empty / full across growth.  empty() holds exactly when len == 0 and
\* full() exactly when len == size; a fresh container is empty and not full;
\* after init_size successful inserts it is full (and not before); a
\* successful explicit resize of a full container leaves it not full with
\* len unchanged; and each further insert into a not-full container grows
\* nothing and makes it full exactly when it fills the last free slot, so
\* size - len inserts make it full again without another growth.
C28_EmptyFull ==
   /\ [](/\ IsEmpty(obj) <=> obj.len = 0
         /\ IsFull(obj) <=> obj.len = obj.size
         /\ op \in {"init", "delete"} => (IsEmpty(obj) /\ ~IsFull(obj))
         /\ (Filling /\ Len(fed) = init_size) => (IsFull(obj) /\ grows = 0)
         /\ (Filling /\ Len(fed) < init_size) => ~IsFull(obj))
   /\ [][/\ (op' = "resize" /\ ret' /\ IsFull(obj))
            => (~IsFull(obj') /\ obj'.len = obj.len)
         /\ (op' \in InsertOps /\ ~IsFull(obj))
            => (/\ ret' /\ calls' = <<>>
                /\ obj'.size = obj.size /\ obj'.len = obj.len + 1
                /\ IsFull(obj') <=> obj.size - obj.len = 1)]_vars

\* C28 happens: a full stack was resized and then filled to its new capacity
\* by pushes that did not grow it
C28_Witness ==
   /\ kind = "stack" /\ op = "push" /\ ret /\ calls = <<>>
   /\ stack_full(obj) /\ ~stack_empty(obj)
   /\ obj.size = init_size * GrowthFactor /\ grows = 1

\* C29: Relocation policy and its ordering.  A queue / deque growth calls
\* reallocate exactly when the buffer is on the heap and not wrapped, and
\* allocate in the three other cases; the old heap buffer is freed only in
\* the heap + wrapped case, after the new buffer was obtained and holds both
\* runs; the inline buffer is never passed to free or reallocate.  A stack
\* growth calls allocate for the first growth after init / delete and
\* reallocate for every later one.
C29_RelocationPolicy ==
   [][/\ (kind \in {"queue", "deque"} /\ op' # "delete" /\ calls' # <<>>)
         => LET in_heap     == obj.values = "heap"
                not_wrapped == obj.head + obj.len <= obj.size
            IN  /\ (in_heap /\ not_wrapped)
                   => calls' \in {<<"realloc">>, <<"realloc_fail">>}
                /\ ~in_heap
                   => calls' \in {<<"alloc">>, <<"alloc_fail">>}
                /\ (in_heap /\ ~not_wrapped)
                   => calls' \in {<<"alloc", "free">>, <<"alloc_fail">>}
                /\ Has(calls', "free")
                   => (/\ calls' = <<"alloc", "free">>
                       /\ \A i \in 1..obj.len :
                             Active(obj')[i - 1] = Logical(obj)[i])
      /\ (kind = "stack" /\ op' # "delete" /\ calls' # <<>>)
         => /\ grows = 0 => calls' \in {<<"alloc">>, <<"alloc_fail">>}
            /\ grows > 0 => calls' \in {<<"realloc">>, <<"realloc_fail">>}
      /\ (Has(calls', "free") \/ Has(calls', "realloc") \/ Has(calls', "realloc_fail"))
         => obj.values = "heap"]_vars

\* C29 happens: an explicit resize of a queue whose elements wrap round the
\* end of its heap buffer allocated, copied and then freed
C29_Witness ==
   /\ kind = "queue" /\ op = "resize" /\ ret
   /\ calls = <<"alloc", "free">> /\ obj.head = 0 /\ obj.len > 1

\* the index expressions (in len_type arithmetic, before the mask) that the
\* queue / deque operations evaluate on the struct c: the tail head + len
\* (enque, insert_back), head + len - 1 (peek_back), head + 1 (deque,
\* remove_front), front + size - 1 (insert_front), and head + i, tail - i
\* of the reverse loop
IndexExprs(c) ==
   {Wrap(c.head + c.len), Wrap(c.head + 1), Wrap(c.head + c.size - 1)}
   \cup (IF c.len > 0 THEN {Wrap(c.head + c.len - 1)} ELSE {})
   \cup UNION {{Wrap(c.head + i), Wrap(Wrap(c.head + c.len - 1) - i)} :
                 i \in 0..(c.len \div 2 - 1)}

\* C30: mask indexing equals modulo indexing.  In every reachable queue /
\* deque state, every index expression the code evaluates gives the same
\* slot under `& (size - 1)` as under `mod size`, so the operations step to
\* the same states either way (shown here for the front removal and the
\* back peek, which use the mask directly).
C30_MaskIsModulo ==
   kind \in {"queue", "deque"}
   => /\ \A idx \in IndexExprs(obj) :
           BitAnd(idx, Wrap(obj.size - 1)) = idx % obj.size
      /\ obj.len > 0
         => /\ deque_remove_front(obj).c.head = (obj.head + 1) % obj.size
            /\ queue_deque(obj).c.head = (obj.head + 1) % obj.size
            /\ deque_peek_back(obj) = Active(obj)[(obj.head + obj.len - 1) % obj.size]

\* C30 happens: a grown deque whose tail index lies past the end of the
\* buffer, so that the mask has to fold it back
C30_Witness ==
   /\ kind = "deque" /\ obj.size > init_size
   /\ obj.head + obj.len > obj.size /\ obj.len > 2
   /\ BitAnd(obj.head + obj.len, obj.size - 1) # obj.head + obj.len

----------------------------------------------------------------------------
\* C31: remove_back on a non-empty deque only decrements the length: front,
\* capacity, the active buffer and every slot of both buffers stay as they
\* were, so the vacated back slot still holds the removed element; and a
\* successful insert_back right after it makes no allocator call and writes
\* its value into exactly that slot, (front + length) AND (capacity - 1),
\* changing nothing else but the length.
C31_RemoveBackOnlyDecrements ==
   [][/\ (kind = "deque" /\ op' = "remove_back" /\ obj.len > 0) =>
            /\ ret'
            /\ calls' = <<>>
            /\ obj' = [obj EXCEPT !.len = obj.len - 1]
            /\ Active(obj')[BitAnd(obj'.head + obj'.len, obj'.size - 1)]
                  = deque_peek_back(obj)
      /\ (kind = "deque" /\ op = "remove_back" /\ ret /\ op' = "insert_back") =>
            /\ ret'
            /\ calls' = <<>>
            /\ obj' = [Store(obj, BitAnd(obj.head + obj.len, obj.size - 1), nextv)
                          EXCEPT !.len = obj.len + 1]]_vars

\* a remove_back has just taken the back element of a deque whose front is
\* not slot 0, and the vacated slot still holds that element
C31_Witness ==
   /\ kind = "deque"
   /\ op = "remove_back"
   /\ ret
   /\ obj.head # 0
   /\ obj.len > 0
   /\ Active(obj)[BitAnd(obj.head + obj.len, obj.size - 1)] # Indet


----------------------------------------------------------------------------
\* C32: in the assertion-enabled build the validator is the first thing an
\* insertion does: whatever the state of the container (full or not) and
\* whatever the allocator would answer, push / enque / insert_front /
\* insert_back of a rejected value aborts with the struct as it was and no
\* allocator call made; and a step that ends in the abort changes no field
\* and no heap buffer and counts no growth.
C32_ValidatorFirst ==
   /\ [](Running =>
           \A value \in Rejected, ok \in BOOLEAN :
              /\ kind = "stack" =>
                    stack_push_assert(obj, value, ok) = Result(obj, FALSE, <<"abort">>)
              /\ kind = "queue" =>
                    queue_enque_assert(obj, value, ok) = Result(obj, FALSE, <<"abort">>)
              /\ kind = "deque" =>
                    /\ deque_insert_front_assert(obj, value, ok)
                          = Result(obj, FALSE, <<"abort">>)
                    /\ deque_insert_back_assert(obj, value, ok)
                          = Result(obj, FALSE, <<"abort">>))
   /\ [][Aborted(calls') =>
            /\ op' \in InsertOps
            /\ calls' = <<"abort">>
            /\ ~ret'
            /\ obj' = obj
            /\ live' = live
            /\ grows' = grows
            /\ nextv' = nextv]_vars

\* an insert into a full container whose buffer is already on the heap has
\* aborted on a rejected value
C32_Witness ==
   /\ Aborted(calls)
   /\ op \in InsertOps
   /\ IsFull(obj)
   /\ obj.values = "heap"

----------------------------------------------------------------------------
\* the abstract list operations
Prepend(x, l) == <<x>> \o l

DropFirst(l) == SubSeq(l, 2, Len(l))

DropLast(l) == SubSeq(l, 1, Len(l) - 1)

\* C33: the deque refines a list.  The logical sequence, read as
\* values[(front + i) AND (capacity - 1)] for i in [0, length), is empty at
\* construction, and every insert_front, insert_back, remove_front,
\* remove_back, clear and delete step (inserts growing a full deque, the
\* allocator free to fail) changes it as prepend, append, drop-first,
\* drop-last and empty change a list; a failed insert and a remove from an
\* empty deque leave it unchanged.  This holds from every state, also from
\* one a clear left with front # 0.
C33_DequeRefinesList ==
   /\ [](kind = "deque" /\ op = "init" => Logical(obj) = <<>>)
   /\ [][kind = "deque" =>
            LET old == Logical(obj)
                new == Logical(obj')
            IN  /\ op' = "insert_front" =>
                      new = IF ret' THEN Prepend(nextv, old) ELSE old
                /\ op' = "insert_back" =>
                      new = IF ret' THEN Append(old, nextv) ELSE old
                /\ op' = "remove_front" =>
                      /\ ret' = (old # <<>>)
                      /\ new = IF ret' THEN DropFirst(old) ELSE old
                /\ op' = "remove_back" =>
                      /\ ret' = (old # <<>>)
                      /\ new = IF ret' THEN DropLast(old) ELSE old
                /\ op' \in {"clear", "delete"} => new = <<>>]_vars

\* an insert_back has put the only element into a deque that was emptied
\* with its front left away from slot 0 and old values left in the buffer
C33_Witness ==
   /\ kind = "deque"
   /\ op = "insert_back"
   /\ ret
   /\ obj.len = 1
   /\ obj.head # 0
   /\ \E i \in DOMAIN Active(obj) : i # obj.head /\ Active(obj)[i] # Indet

----------------------------------------------------------------------------
\* C34: index arithmetic never overflows len_type.  In every reachable
\* state the capacity is at most 2^(w-1), so the values head + len,
\* head + len - 1, front + size - 1 and head + 1 (and head + i, tail - i of
\* the reverse loop), computed without wraparound, lie in 0 .. 2^w - 1; and
\* no operation evaluates len - 1 on an empty container: the removals return
\* false and reverse returns at once, each leaving the struct as it is.
C34_NoIndexOverflow ==
   /\ obj.size <= Pow2(len_bits - 1)
   /\ obj.size - 1 >= 0
   /\ kind \in {"queue", "deque"} =>
         /\ obj.head + obj.len <= LEN_MAX
         /\ obj.head + obj.size - 1 <= LEN_MAX
         /\ obj.head + 1 <= LEN_MAX
         /\ obj.len > 0 =>
               /\ obj.head + obj.len - 1 >= 0
               /\ obj.head + obj.len - 1 <= LEN_MAX
         /\ \A i \in 0..(obj.len \div 2 - 1) :
               /\ obj.head + i <= LEN_MAX
               /\ obj.head + obj.len - 1 - i >= 0
   /\ kind = "stack" =>
         \A i \in 0..(obj.len \div 2 - 1) : obj.len - 1 - i >= 0
   /\ obj.len = 0 =>
         /\ kind = "stack" =>
               /\ stack_pop(obj) = Result(obj, FALSE, <<>>)
               /\ stack_reverse(obj).c = obj
         /\ kind = "queue" =>
               /\ queue_deque(obj) = Result(obj, FALSE, <<>>)
               /\ queue_reverse(obj).c = obj
         /\ kind = "deque" =>
               /\ deque_remove_front(obj) = Result(obj, FALSE, <<>>)
               /\ deque_remove_back(obj) = Result(obj, FALSE, <<>>)

\* a full queue / deque at the largest capacity, 2^(w-1), whose front is the
\* last slot: head + len is exactly the maximum of len_type
C34_Witness ==
   /\ kind \in {"queue", "deque"}
   /\ obj.size = Pow2(len_bits - 1)
   /\ obj.len = obj.size
   /\ obj.head = obj.size - 1
   /\ obj.head + obj.len = LEN_MAX

----------------------------------------------------------------------------
\* C35: placement and capacity agree.  In every reachable state of a stack,
\* queue or deque, `values` is the inline buffer exactly when the capacity
\* is init_size; and a container whose buffer is on the heap keeps it on
\* the heap through every operation (removals, clear, reverse, peeks,
\* failed and successful growth) except delete, which returns it to the
\* inline buffer.
C35_PlacementMatchesCapacity ==
   /\ []((obj.values = "inline") <=> (obj.size = init_size))
   /\ [][obj.values = "heap" =>
            IF op' = "delete"
            THEN obj'.values = "inline" /\ obj'.size = init_size
            ELSE obj'.values = "heap" /\ obj'.size >= obj.size]_vars

\* a clear has emptied a container that had grown: it is still on the heap
\* at its grown capacity
C35_Witness ==
   /\ op = "clear"
   /\ obj.len = 0
   /\ obj.values = "heap"
   /\ obj.size = init_size * GrowthFactor * GrowthFactor

----------------------------------------------------------------------------
\* the slots that hold the len elements of the struct c
LiveSlots(c) ==
   IF kind = "stack"
   THEN 0..(c.len - 1)
   ELSE {BitAnd(Wrap(c.head + i), Wrap(c.size - 1)) : i \in 0..(c.len - 1)}

\* the index of the slot each peek reads on the struct c
PeekIndex(name, c) ==
   CASE name = "peek" /\ kind = "stack" -> Wrap(c.len - 1)
     [] name = "peek" /\ kind = "queue" -> c.head
     [] name = "peek_front" -> c.head
     [] name = "peek_back" -> BitAnd(Wrap(c.head + c.len - 1), Wrap(c.size - 1))

\* the slots the reverse loop swaps on the struct c
SwappedSlots(c) ==
   IF c.len < 2 THEN {}
   ELSE IF kind = "stack"
        THEN UNION {{i, Wrap(Wrap(c.len - 1) - i)} : i \in 0..(c.len \div 2 - 1)}
        ELSE UNION {{BitAnd(Wrap(c.head + i), Wrap(c.size - 1)),
                     BitAnd(Wrap(Wrap(c.head + c.len - 1) - i), Wrap(c.size - 1))} :
                       i \in 0..(c.len \div 2 - 1)}

\* the slot s of the struct c is inside the active buffer
InBounds(c, s) == s \in 0..(c.size - 1) /\ s \in DOMAIN Active(c)

\* the write of an insert step: the slot is inside the buffer that is active
\* after any growth and is none of the slots holding the len elements the
\* container had (after the call the len + 1 live slots are distinct and
\* only the written one holds the new value)
WritesAreSafe ==
   (op' \in InsertOps /\ ret') =>
      LET slot == InsertSlot(op', obj, obj', Grew(calls'))
          rest == LiveSlots(obj') \ {slot}
      IN  /\ InBounds(obj', slot)
          /\ slot \in LiveSlots(obj')
          /\ Cardinality(rest) = obj.len
          /\ Active(obj')[slot] = nextv
          /\ \A s \in rest : InBounds(obj', s) /\ Active(obj')[s] # nextv

\* the reads of a peek or reverse step: each slot is inside the active
\* buffer, is one of the live slots, and holds an element (a value that was
\* inserted, not the indeterminate content of a slot never written)
ReadsAreLive ==
   /\ op' \in PeekOps =>
         LET slot == PeekIndex(op', obj)
         IN  /\ InBounds(obj, slot)
             /\ slot \in LiveSlots(obj)
             /\ Active(obj)[slot] # Indet
   /\ op' = "reverse" =>
         \A slot \in SwappedSlots(obj) :
            /\ InBounds(obj, slot)
            /\ slot \in LiveSlots(obj)
            /\ Active(obj)[slot] # Indet

\* C36: inserts never clobber live data and never write out of bounds, and
\* every slot a peek reads on a non-empty container and every slot reverse
\* swaps lies inside the buffer and holds a live element.  The writes are
\* safe in every step; the reads are not, after a resize of a queue / deque
\* that is not full, is in its inline buffer and has head # 0: that resize
\* copies from slot 0 and keeps head (C14), so the live slots of the new
\* buffer were never written.
C36_SlotSafety == [][WritesAreSafe /\ ReadsAreLive]_vars

----------------------------------------------------------------------------
\* front, len, size, the active buffer and the logical sequence of the struct
\* d are those of the struct c
Restored(c, d) ==
   /\ d.head = c.head
   /\ d.len = c.len
   /\ d.size = c.size
   /\ d.values = c.values
   /\ Logical(d) = Logical(c)

\* C37: deque insert / remove round trip.  On every reachable deque that is
\* not full, whatever the allocator would answer, insert_back(x) succeeds
\* without an allocator call and a remove_back() after it restores front,
\* len, size, the active buffer and the logical sequence; insert_front(x)
\* followed by remove_front() does the same, front going down through the
\* mask and back up to its previous value.
C37_RoundTrip ==
   (kind = "deque" /\ ~deque_full(obj)) =>
      \A ok \in BOOLEAN :
         /\ LET a == deque_insert_back(obj, nextv, ok)
                b == deque_remove_back(a.c)
            IN  /\ a.ret /\ a.calls = <<>> /\ a.c.len = obj.len + 1
                /\ b.ret /\ b.calls = <<>>
                /\ Restored(obj, b.c)
         /\ LET a == deque_insert_front(obj, nextv, ok)
                b == deque_remove_front(a.c)
            IN  /\ a.ret /\ a.calls = <<>> /\ a.c.len = obj.len + 1
                /\ a.c.head = (obj.head + obj.size - 1) % obj.size
                /\ b.ret /\ b.calls = <<>>
                /\ Restored(obj, b.c)

\* a remove_front has just taken back the newest value, which an
\* insert_front had put in the last slot of the buffer: front went from 0
\* down to size - 1 and is 0 again, with elements behind it
C37_Witness ==
   /\ kind = "deque"
   /\ op = "remove_front"
   /\ ret
   /\ obj.head = 0
   /\ obj.len > 0
   /\ ~deque_full(obj)
   /\ Active(obj)[obj.size - 1] = nextv - 1

============================================================================
